---------------------------- MODULE Spec2Model ----------------------------
(***************************************************************************)
(* NHL Stats Analyzer (src/app.py): the session's list of player-season    *)
(* selections, the per-game normalisation of a fetched game log, the       *)
(* aggregation engine (cumulative / 82-game pace / distribution) and the   *)
(* analysis run that combines up to three selections.                      *)
(*                                                                         *)
(* Python lists are 0-based; sequences here are 1-based, so the element at *)
(* Python position i is element i+1 here.  Values that the program keeps   *)
(* 0-based (color_idx) keep their Python value.                            *)
(***************************************************************************)
EXTENDS Integers, Sequences, FiniteSets, TLC

VARIABLES
    players,                \* st.session_state.players
    mode_key,               \* analysis mode chosen in the radio widget
    selected_metric_id,     \* metric chosen in the selectbox
    pc,                     \* position of the analysis run
    i,                      \* loop index of the analysis loop (0-based)
    fetched,                \* what get_game_log returned for each selection of this run
    all_dfs,                \* the run's list of computed frames
    distribution_summaries, \* the run's list of distribution summaries
    shown,                  \* what the run rendered
    last_df,                \* the normalized frame of the selection processed last
    last_action             \* history: the user action or run step taken last

vars == <<players, mode_key, selected_metric_id, pc, i, fetched, all_dfs,
          distribution_summaries, shown, last_df, last_action>>

-----------------------------------------------------------------------------
(* Bounds of the model *)

\* longest seasonTotals list a player-details response carries
MaxTotals == 3

\* longest game log of the short logs handed to the engine
MaxGames == 2

\* longest game log of the long (rolling-window) logs handed to the engine
LongGames == 11

\* Program constants
MaxPlayers == 3
DefaultSeason == 20232024

-----------------------------------------------------------------------------
(* Generic helpers *)

Range(s) == {s[k] : k \in DOMAIN s}

SeqsUpTo(S, n) == UNION {[1..k -> S] : k \in 0..n}

Min(S) == CHOOSE x \in S : \A y \in S : x <= y

Max(S) == CHOOSE x \in S : \A y \in S : x >= y

\* s with the element at 1-based position k removed (list.pop(k-1))
RemoveAt(s, k) == [j \in 1..(Len(s) - 1) |-> IF j < k THEN s[j] ELSE s[j + 1]]

-----------------------------------------------------------------------------
(* Player selection *)

PlayerIds == {8478402}

PlayerName(id) == "McDavid"

\* search results the Add button can be pressed on
SearchResults == {[playerId |-> id, name |-> PlayerName(id)] : id \in PlayerIds}

SeasonIds == {20212022, 20222023, 20232024}

\* entries of details['seasonTotals']: the NHL regular season (gameTypeId 2) of
\* each season, and for the latest season an AHL line and a playoff line
SeasonTotalEntries ==
    {[season |-> s, leagueAbbrev |-> "NHL", gameTypeId |-> 2] : s \in SeasonIds}
    \cup {[season |-> 20232024, leagueAbbrev |-> "AHL", gameTypeId |-> 2],
          [season |-> 20232024, leagueAbbrev |-> "NHL", gameTypeId |-> 3]}

\* get_player_details: None on an exception (ok = FALSE), else the response.
\* has_totals / has_season_id say which keys the response carries.
DetailsResponses ==
    {[ok |-> FALSE, has_totals |-> FALSE, seasonTotals |-> <<>>,
      has_season_id |-> FALSE, seasonId |-> DefaultSeason]}
    \cup
    {[ok |-> TRUE, has_totals |-> FALSE, seasonTotals |-> <<>>,
      has_season_id |-> hs, seasonId |-> 20222023] : hs \in BOOLEAN}
    \cup
    {[ok |-> TRUE, has_totals |-> TRUE, seasonTotals |-> st,
      has_season_id |-> (st = <<>>), seasonId |-> 20222023] :
        st \in SeqsUpTo(SeasonTotalEntries, MaxTotals)}

\* the first-occurrence-only list of seasons of the entries (seen-set loop)
RECURSIVE Dedup(_, _)
Dedup(entries, seen) ==
    IF entries = <<>> THEN <<>>
    ELSE IF Head(entries).season \in seen THEN Dedup(Tail(entries), seen)
         ELSE <<Head(entries).season>>
              \o Dedup(Tail(entries), seen \cup {Head(entries).season})

\* the seasons left in the order of the response (the sort forgotten)
SortDesc_NoSort(s) == s

\* list.sort(reverse=True) on a list of integers
RECURSIVE SortDesc(_)
SortDesc(s) ==
    IF s = <<>> THEN <<>>
    ELSE LET m == Max(Range(s))
             k == Min({j \in DOMAIN s : s[j] = m})
         IN  <<m>> \o SortDesc(RemoveAt(s, k))

\* the seasons list add_player computes from the details
SeasonsOf(details) ==
    LET nhl == SelectSeq(details.seasonTotals,
                         LAMBDA s : s.leagueAbbrev = "NHL" /\ s.gameTypeId = 2)
        seasons == IF details.has_totals THEN SortDesc(Dedup(nhl, {})) ELSE <<>>
    IN  IF seasons = <<>>
        THEN <<IF details.has_season_id THEN details.seasonId ELSE DefaultSeason>>
        ELSE seasons

\* add_player with the cap test off by one
AddPlayerResult_CapOffByOne(ps, player_data, details) ==
    IF Len(ps) > MaxPlayers THEN ps
    ELSE IF ~details.ok THEN ps
    ELSE Append(ps, [id |-> player_data.playerId,
                     name |-> player_data.name,
                     selected_season |-> SeasonsOf(details)[1],
                     available_seasons |-> SeasonsOf(details),
                     color_idx |-> Len(ps)])

\* the list after add_player(player_data) when the details fetch returned details
AddPlayerResult(ps, player_data, details) ==
    IF Len(ps) >= MaxPlayers THEN ps
    ELSE IF ~details.ok THEN ps
    ELSE Append(ps, [id |-> player_data.playerId,
                     name |-> player_data.name,
                     selected_season |-> SeasonsOf(details)[1],
                     available_seasons |-> SeasonsOf(details),
                     color_idx |-> Len(ps)])

\* remove_player without the re-indexing loop
RemovePlayerResult_NoReindex(ps, idx) == RemoveAt(ps, idx + 1)

\* the list after remove_player(idx), idx 0-based
RemovePlayerResult(ps, idx) ==
    LET popped == RemoveAt(ps, idx + 1)
    IN  [k \in 1..Len(popped) |-> [popped[k] EXCEPT !.color_idx = k - 1]]

-----------------------------------------------------------------------------
(* Values of a data frame cell.  A number is an exact fraction n/d in lowest   *)
(* terms (d > 0); NaN is the missing-value marker pandas puts in a cell no     *)
(* record supplied; None is Python's None; a string is a sequence of           *)
(* characters.  Floating-point rounding is not modelled.                       *)

Abs(x) == IF x < 0 THEN -x ELSE x

RECURSIVE GCD(_, _)
GCD(a, b) == IF b = 0 THEN a ELSE GCD(b, a % b)

Num(n, d) ==
    LET g == GCD(Abs(n), d)
    IN  [kind |-> "num", n |-> n \div g, d |-> d \div g, s |-> <<>>]

IntVal(n) == Num(n, 1)

NaN == [kind |-> "nan", n |-> 0, d |-> 1, s |-> <<>>]

None == [kind |-> "none", n |-> 0, d |-> 1, s |-> <<>>]

Str(chars) == [kind |-> "str", n |-> 0, d |-> 1, s |-> chars]

IsNum(c) == c.kind = "num"

\* float arithmetic: a NaN operand gives NaN
QAdd(a, b) == IF IsNum(a) /\ IsNum(b) THEN Num(a.n * b.d + b.n * a.d, a.d * b.d) ELSE NaN

QSub(a, b) == IF IsNum(a) /\ IsNum(b) THEN Num(a.n * b.d - b.n * a.d, a.d * b.d) ELSE NaN

QMul(a, b) == IF IsNum(a) /\ IsNum(b) THEN Num(a.n * b.n, a.d * b.d) ELSE NaN

\* a / b for b # 0 (every division of the program is by a value it knows is > 0)
QDiv(a, b) ==
    IF IsNum(a) /\ IsNum(b)
    THEN IF b.n > 0 THEN Num(a.n * b.d, a.d * b.n) ELSE Num(-(a.n * b.d), a.d * (-b.n))
    ELSE NaN

\* x > 0; a comparison with NaN is False
QGt0(a) == IsNum(a) /\ a.n > 0

\* max(0, x): x when x > 0, else the 0 given first
QMax0(a) == IF QGt0(a) THEN a ELSE IntVal(0)

\* pandas Series.sum(): NaN cells are skipped, the empty sum is 0
RECURSIVE SumSkipNa(_)
SumSkipNa(col) ==
    IF col = <<>> THEN IntVal(0)
    ELSE IF IsNum(Head(col)) THEN QAdd(Head(col), SumSkipNa(Tail(col)))
         ELSE SumSkipNa(Tail(col))

\* pandas Series.cumsum(): a NaN cell stays NaN and is skipped by the running sum
CumSum(col) ==
    [g \in 1..Len(col) |-> IF IsNum(col[g]) THEN SumSkipNa(SubSeq(col, 1, g)) ELSE NaN]

\* element-wise + of two columns
ColAdd(a, b) == [g \in 1..Len(a) |-> QAdd(a[g], b[g])]

-----------------------------------------------------------------------------
(* Helper functions *)

Digits == {"0", "1", "2", "3", "4", "5", "6", "7", "8", "9"}

DigitVal(c) ==
    CASE c = "0" -> 0 [] c = "1" -> 1 [] c = "2" -> 2 [] c = "3" -> 3 [] c = "4" -> 4
      [] c = "5" -> 5 [] c = "6" -> 6 [] c = "7" -> 7 [] c = "8" -> 8 [] c = "9" -> 9

\* str.split(':')
RECURSIVE SplitColon(_)
SplitColon(chars) ==
    IF \A k \in DOMAIN chars : chars[k] # ":" THEN <<chars>>
    ELSE LET k == Min({j \in DOMAIN chars : chars[j] = ":"})
         IN  <<SubSeq(chars, 1, k - 1)>> \o SplitColon(SubSeq(chars, k + 1, Len(chars)))

\* int(part) succeeds (on the characters modelled: digits, ':' and letters)
IsIntLiteral(part) == part # <<>> /\ \A k \in DOMAIN part : part[k] \in Digits

RECURSIVE IntOf(_)
IntOf(part) ==
    IF part = <<>> THEN 0
    ELSE 10 * IntOf(SubSeq(part, 1, Len(part) - 1)) + DigitVal(part[Len(part)])

\* parse_toi: minutes of an "MM:SS" clock; 0.0 for a falsy value and for anything
\* the parse raises on (a cell that is no string, a wrong number of parts, a
\* part that is no integer)
parse_toi(toi_str) ==
    IF toi_str.kind # "str" THEN IntVal(0)
    ELSE IF toi_str.s = <<>> THEN IntVal(0)
    ELSE LET parts == SplitColon(toi_str.s)
         IN  IF Len(parts) # 2 THEN IntVal(0)
             ELSE IF ~(IsIntLiteral(parts[1]) /\ IsIntLiteral(parts[2])) THEN IntVal(0)
             ELSE QAdd(IntVal(IntOf(parts[1])), Num(IntOf(parts[2]), 60))

\* format_season: characters 2..3 and 6..7 of the 8-digit id, e.g. 20232024 -> 2324
\* (the label "23-24", kept as the number 2324)
format_season(season_id) ==
    ((season_id \div 10000) % 100) * 100 + (season_id % 100)

COLORS == <<"#38bdf8", "#f472b6", "#34d399">>

-----------------------------------------------------------------------------
(* Per-game record normalizer *)

NumericFields ==
    <<"goals", "assists", "points", "shots", "plusMinus", "powerPlayPoints",
      "shorthandedPoints", "powerPlayGoals", "shorthandedGoals">>

\* columns of pd.DataFrame(gameLog): every key some record carries
Columns(gameLog) == UNION {DOMAIN gameLog[k] : k \in DOMAIN gameLog}

\* the cell of record k in column c: NaN when the record lacks the key
Cell(gameLog, k, c) == IF c \in DOMAIN gameLog[k] THEN gameLog[k][c] ELSE NaN

\* pd.to_datetime of a "YYYY-MM-DD" date, kept as <<y, m, d>>: a day count
\* that orders dates chronologically
DateObj(date) == (date.s[1] * 12 + date.s[2]) * 31 + date.s[3]

\* df.sort_values('date_obj') uses pandas' default kind='quicksort', which
\* pandas documents as not stable: records of equal date come out in an
\* unspecified order.  SortOrders is every order (of feed positions) the sort
\* may return: ascending by date, equal dates in any order.
RECURSIVE OrdersOf(_, _)
OrdersOf(gameLog, dates) ==
    IF dates = {} THEN {<<>>}
    ELSE LET d == Min(dates)
             block == {k \in DOMAIN gameLog : DateObj(gameLog[k].gameDate) = d}
             perms == {p \in [1..Cardinality(block) -> block] :
                          \A a, b \in DOMAIN p : a # b => p[a] # p[b]}
         IN  {p \o r : p \in perms, r \in OrdersOf(gameLog, dates \ {d})}

SortOrders(gameLog) ==
    OrdersOf(gameLog, {DateObj(gameLog[k].gameDate) : k \in DOMAIN gameLog})

\* the order a stable sort returns: equal dates keep their feed order
StableOrder(gameLog) ==
    CHOOSE o \in SortOrders(gameLog) :
        \A a, b \in DOMAIN o :
            (a < b /\ DateObj(gameLog[o[a]].gameDate) = DateObj(gameLog[o[b]].gameDate))
                => o[a] < o[b]

\* a column access df['gameDate'] / df['toi'] raises KeyError when no record
\* carries the key (in particular for the empty game log, which has no columns)
RaisesKeyError(gameLog) ==
    "gameDate" \notin Columns(gameLog) \/ "toi" \notin Columns(gameLog)

\* a numeric column after the defaulting loop: 0 when the frame has no such column
NumericCell(gameLog, k, col) ==
    IF col \notin Columns(gameLog) THEN IntVal(0) ELSE Cell(gameLog, k, col)

\* df.get(col, pd.Series(['00:00'] * len(df))).apply(parse_toi)
OptionalToi(gameLog, k, col) ==
    IF col \in Columns(gameLog) THEN parse_toi(Cell(gameLog, k, col))
    ELSE parse_toi(Str(<<"0", "0", ":", "0", "0">>))

\* the normalized frame: the records in sorted order `order`, numbered from 1,
\* with the derived time-on-ice columns and the defaulted numeric columns
Normalize(gameLog, order) ==
    [g \in 1..Len(order) |->
        LET k == order[g]
        IN  [gameDate          |-> gameLog[k].gameDate,
             game_number       |-> (g - 1) + 1,
             toi_val           |-> parse_toi(Cell(gameLog, k, "toi")),
             pp_toi_val        |-> OptionalToi(gameLog, k, "powerPlayToi"),
             sh_toi_val        |-> OptionalToi(gameLog, k, "shorthandedToi"),
             goals             |-> NumericCell(gameLog, k, "goals"),
             assists           |-> NumericCell(gameLog, k, "assists"),
             points            |-> NumericCell(gameLog, k, "points"),
             shots             |-> NumericCell(gameLog, k, "shots"),
             plusMinus         |-> NumericCell(gameLog, k, "plusMinus"),
             powerPlayPoints   |-> NumericCell(gameLog, k, "powerPlayPoints"),
             shorthandedPoints |-> NumericCell(gameLog, k, "shorthandedPoints"),
             powerPlayGoals    |-> NumericCell(gameLog, k, "powerPlayGoals"),
             shorthandedGoals  |-> NumericCell(gameLog, k, "shorthandedGoals")]]

\* a column of the frame
Col(df, c) == [g \in 1..Len(df) |-> df[g][c]]

-----------------------------------------------------------------------------
(* Metric selector and aggregation engine *)

PaceGames == 82
RollingWindow == 10

\* METRIC_OPTIONS: the metric ids of each mode
MetricIds(mode) ==
    CASE mode = "cumulative" ->
            {"points", "goals", "assists", "shots", "plusMinus", "evenStrengthPoints"}
      [] mode = "projection" ->
            {"points", "goals", "assists", "shots", "shootingPct", "toi", "esToi",
             "evenStrengthPct", "plusMinus"}
      [] mode = "distribution" ->
            {"pointsComp", "pointsSit", "goalsSit", "assistsSit"}

Modes == {"cumulative", "projection", "distribution"}

RateMetrics == {"shootingPct", "evenStrengthPct", "toi", "esToi", "shots"}

\* the per-game value the metric accumulates (the val of the first row loop)
StatVal(row, metric) ==
    CASE metric = "points" -> row.points
      [] metric = "goals" -> row.goals
      [] metric = "assists" -> row.assists
      [] metric = "plusMinus" -> row.plusMinus
      [] metric = "shots" -> row.shots
      [] metric = "toi" -> row.toi_val
      [] metric = "esToi" ->
            QMax0(QSub(QSub(row.toi_val, row.pp_toi_val), row.sh_toi_val))
      [] metric = "evenStrengthPoints" ->
            QSub(row.points, QAdd(row.powerPlayPoints, row.shorthandedPoints))
      [] OTHER -> IntVal(0)

\* y_final of game gp from the cumulative columns (the second row loop)
FinalVal(metric, mode, gp, cum_val, cum_goals, cum_shots, cum_points, cum_pp_sh_pts) ==
    LET res ==
            IF metric = "shootingPct"
            THEN IF QGt0(cum_shots)
                 THEN QMul(QDiv(cum_goals, cum_shots), IntVal(100)) ELSE IntVal(0)
            ELSE IF metric = "evenStrengthPct"
            THEN IF QGt0(cum_points)
                 THEN QMul(QDiv(QSub(cum_points, cum_pp_sh_pts), cum_points), IntVal(100))
                 ELSE IntVal(0)
            ELSE IF metric \in {"toi", "esToi"} THEN QDiv(cum_val, IntVal(gp))
            ELSE IF metric = "shots" /\ mode = "projection" THEN QDiv(cum_val, IntVal(gp))
            ELSE cum_val
    IN  IF mode = "projection" /\ metric \notin RateMetrics
        THEN QMul(QDiv(res, IntVal(gp)), IntVal(PaceGames))
        ELSE res

\* first position (0-based idx) that has a rolling value
FirstRollingIdx == 9

\* the window one game short: df.iloc[idx-8 : idx+1]
WindowSlice_NineGames(col, idx) == SubSeq(col, (idx - FirstRollingIdx) + 2, idx + 1)

\* the rows df.iloc[idx-9 : idx+1] of the frame, idx 0-based
WindowSlice(col, idx) == SubSeq(col, (idx - FirstRollingIdx) + 1, idx + 1)

\* y_rolling of the game at 0-based position idx (the rolling loop)
RollingVal(metric, stat_val, df, idx) ==
    IF idx < FirstRollingIdx THEN None
    ELSE LET s_val   == SumSkipNa(WindowSlice(stat_val, idx))
             s_goals == SumSkipNa(WindowSlice(Col(df, "goals"), idx))
             s_shots == SumSkipNa(WindowSlice(Col(df, "shots"), idx))
             s_pts   == SumSkipNa(WindowSlice(Col(df, "points"), idx))
             s_spec  == QAdd(SumSkipNa(WindowSlice(Col(df, "powerPlayPoints"), idx)),
                             SumSkipNa(WindowSlice(Col(df, "shorthandedPoints"), idx)))
             r_res ==
                 IF metric = "shootingPct"
                 THEN IF QGt0(s_shots)
                      THEN QMul(QDiv(s_goals, s_shots), IntVal(100)) ELSE IntVal(0)
                 ELSE IF metric = "evenStrengthPct"
                 THEN IF QGt0(s_pts)
                      THEN QMul(QDiv(QSub(s_pts, s_spec), s_pts), IntVal(100))
                      ELSE IntVal(0)
                 ELSE IF metric \in {"toi", "esToi"} THEN QDiv(s_val, IntVal(RollingWindow))
                 ELSE IF metric = "shots" THEN QDiv(s_val, IntVal(RollingWindow))
                 ELSE s_val
         IN  IF metric \notin RateMetrics
             THEN QMul(QDiv(r_res, IntVal(RollingWindow)), IntVal(PaceGames))
             ELSE r_res

\* the frame appended to all_dfs for selection p at list position idx (0-based):
\* the normalized rows with the series columns; y_rolling only in projection mode
SeriesFrame(df, mode, metric, p, idx) ==
    LET stat_val      == [g \in 1..Len(df) |-> StatVal(df[g], metric)]
        cum_val       == CumSum(stat_val)
        cum_goals     == CumSum(Col(df, "goals"))
        cum_shots     == CumSum(Col(df, "shots"))
        cum_points    == CumSum(Col(df, "points"))
        cum_pp_sh_pts == CumSum(ColAdd(Col(df, "powerPlayPoints"),
                                       Col(df, "shorthandedPoints")))
        y_final == [g \in 1..Len(df) |->
                       FinalVal(metric, mode, df[g].game_number, cum_val[g], cum_goals[g],
                                cum_shots[g], cum_points[g], cum_pp_sh_pts[g])]
        base == [rows |-> df, stat_val |-> stat_val, cum_val |-> cum_val,
                 y_final |-> y_final, player_name |-> p.name, color |-> COLORS[idx + 1],
                 season_label |-> format_season(p.selected_season)]
    IN  IF mode = "projection"
        THEN base @@ ("y_rolling" :>
                        [g \in 1..Len(df) |-> RollingVal(metric, stat_val, df, g - 1)])
        ELSE base

\* the totals with the even-strength assists taken from the special-teams
\* points instead of the special-teams assists
Totals_EsAssistsFromPoints(df) ==
    LET goals     == SumSkipNa(Col(df, "goals"))
        assists   == SumSkipNa(Col(df, "assists"))
        points    == SumSkipNa(Col(df, "points"))
        pp_goals  == SumSkipNa(Col(df, "powerPlayGoals"))
        sh_goals  == SumSkipNa(Col(df, "shorthandedGoals"))
        pp_points == SumSkipNa(Col(df, "powerPlayPoints"))
        sh_points == SumSkipNa(Col(df, "shorthandedPoints"))
    IN  [goals |-> goals, assists |-> assists, points |-> points,
         pp_goals |-> pp_goals, sh_goals |-> sh_goals,
         pp_points |-> pp_points, sh_points |-> sh_points,
         es_goals |-> QSub(QSub(goals, pp_goals), sh_goals),
         es_points |-> QSub(QSub(points, pp_points), sh_points),
         pp_assists |-> QSub(pp_points, pp_goals),
         sh_assists |-> QSub(sh_points, sh_goals),
         es_assists |-> QSub(QSub(assists, pp_points), sh_points)]

\* the totals dictionary of distribution mode
Totals(df) ==
    LET goals     == SumSkipNa(Col(df, "goals"))
        assists   == SumSkipNa(Col(df, "assists"))
        points    == SumSkipNa(Col(df, "points"))
        pp_goals  == SumSkipNa(Col(df, "powerPlayGoals"))
        sh_goals  == SumSkipNa(Col(df, "shorthandedGoals"))
        pp_points == SumSkipNa(Col(df, "powerPlayPoints"))
        sh_points == SumSkipNa(Col(df, "shorthandedPoints"))
        pp_assists == QSub(pp_points, pp_goals)
        sh_assists == QSub(sh_points, sh_goals)
    IN  [goals |-> goals, assists |-> assists, points |-> points,
         pp_goals |-> pp_goals, sh_goals |-> sh_goals,
         pp_points |-> pp_points, sh_points |-> sh_points,
         es_goals |-> QSub(QSub(goals, pp_goals), sh_goals),
         es_points |-> QSub(QSub(points, pp_points), sh_points),
         pp_assists |-> pp_assists, sh_assists |-> sh_assists,
         es_assists |-> QSub(QSub(assists, pp_assists), sh_assists)]

\* the dist_data appended to distribution_summaries; totals is the loop's local
\* dictionary the values are taken from, kept beside them
DistData(df, metric, p, idx) ==
    LET totals == Totals(df)
        situations == <<"Even Strength", "Power Play", "Shorthanded">>
    IN  [name |-> p.name, season |-> format_season(p.selected_season),
         color |-> COLORS[idx + 1], totals |-> totals,
         labels |-> IF metric = "pointsComp" THEN <<"Goals", "Assists">> ELSE situations,
         values |->
            CASE metric = "pointsComp" -> <<totals.goals, totals.assists>>
              [] metric = "pointsSit" ->
                    <<totals.es_points, totals.pp_points, totals.sh_points>>
              [] metric = "goalsSit" ->
                    <<totals.es_goals, totals.pp_goals, totals.sh_goals>>
              [] metric = "assistsSit" ->
                    <<totals.es_assists, totals.pp_assists, totals.sh_assists>>]

-----------------------------------------------------------------------------
(* Session state: the actions on the selection list *)

Idle == pc = "idle"

UnchangedRun == UNCHANGED <<mode_key, selected_metric_id, pc, i, fetched, all_dfs,
                            distribution_summaries, shown, last_df>>

\* the Add button of a search result: add_player(p), then st.rerun()
AddPlayer ==
    /\ Idle
    /\ \E player_data \in SearchResults, details \in DetailsResponses :
          players' = AddPlayerResult(players, player_data, details)
    /\ last_action' = [op |-> "add", idx |-> Len(players)]
    /\ UnchangedRun

\* the remove button of the selection at position idx: remove_player(idx)
RemovePlayer ==
    /\ Idle
    /\ \E idx \in 0..(Len(players) - 1) :
          /\ players' = RemovePlayerResult(players, idx)
          /\ last_action' = [op |-> "remove", idx |-> idx]
    /\ UnchangedRun

\* the season selectbox of the selection at position idx
ChangeSeason ==
    /\ Idle
    /\ \E idx \in 0..(Len(players) - 1) :
          \E new_season \in Range(players[idx + 1].available_seasons) :
             /\ new_season # players[idx + 1].selected_season
             /\ players' = [players EXCEPT ![idx + 1].selected_season = new_season]
             /\ last_action' = [op |-> "season", idx |-> idx]
    /\ UnchangedRun

Init ==
    /\ players = <<>>
    /\ mode_key = "cumulative"
    /\ selected_metric_id = "points"
    /\ pc = "idle"
    /\ i = 0
    /\ fetched = <<>>
    /\ all_dfs = <<>>
    /\ distribution_summaries = <<>>
    /\ shown = "nothing"
    /\ last_df = <<>>
    /\ last_action = [op |-> "none", idx |-> 0]

Next == AddPlayer \/ RemovePlayer \/ ChangeSeason

Spec == Init /\ [][Next]_vars

-----------------------------------------------------------------------------
(* The game-log provider: the responses get_game_log can return *)

Date(day) == Str(<<2024, 1, day>>)

Clock(mm1, mm2, ss1, ss2) == Str(<<mm1, mm2, ":", ss1, ss2>>)

\* a record without the keys in `keys`
Drop(rec, keys) == [c \in (DOMAIN rec) \ keys |-> rec[c]]

\* two complete game records
GameA(day) ==
    [gameDate |-> Date(day), toi |-> Clock("1", "8", "3", "0"),
     powerPlayToi |-> Clock("0", "2", "1", "5"), shorthandedToi |-> Clock("0", "1", "0", "0"),
     goals |-> IntVal(1), assists |-> IntVal(1), points |-> IntVal(2), shots |-> IntVal(3),
     plusMinus |-> IntVal(-1), powerPlayPoints |-> IntVal(1),
     shorthandedPoints |-> IntVal(0), powerPlayGoals |-> IntVal(1),
     shorthandedGoals |-> IntVal(0)]

GameB(day) ==
    [gameDate |-> Date(day), toi |-> Clock("2", "0", "0", "0"),
     powerPlayToi |-> Clock("0", "3", "4", "5"), shorthandedToi |-> Str(<<"x">>),
     goals |-> IntVal(0), assists |-> IntVal(3), points |-> IntVal(3), shots |-> IntVal(0),
     plusMinus |-> IntVal(2), powerPlayPoints |-> IntVal(1),
     shorthandedPoints |-> IntVal(1), powerPlayGoals |-> IntVal(0),
     shorthandedGoals |-> IntVal(0)]

AllNumeric == Range(NumericFields)

\* the records of the short logs: the complete ones on two dates, and ones
\* lacking some keys
EngineRecords ==
    {GameA(5), GameA(7), GameB(5), GameB(7),
     Drop(GameA(5), {"points"}),
     Drop(GameA(5), {"shorthandedPoints"}),
     Drop(GameA(5), AllNumeric),
     Drop(GameB(7), {"goals", "shots"}),
     Drop(GameB(7), {"toi", "powerPlayToi", "shorthandedToi"})}

\* game k (feed position) of a long log: the feed lists the latest game first;
\* the values vary with the position, and the record at feed position `miss`
\* lacks the points, goals and powerPlayPoints keys
LongRecord(n, k, shift, miss) ==
    LET g == (k + shift) % 2
        a == (k + shift) % 3
        rec == [gameDate |-> Date((n + 1) - k), toi |-> Clock("1", "5", "0", "0"),
                goals |-> IntVal(g), assists |-> IntVal(a), points |-> IntVal(g + a),
                shots |-> IntVal(g + 1), plusMinus |-> IntVal((k % 3) - 1),
                powerPlayPoints |-> IntVal(IF k % 4 = 0 THEN g ELSE 0),
                shorthandedPoints |-> IntVal(IF k % 5 = 0 THEN g ELSE 0),
                powerPlayGoals |-> IntVal(IF k % 4 = 0 THEN g ELSE 0),
                shorthandedGoals |-> IntVal(IF k % 5 = 0 THEN g ELSE 0)]
    IN  IF k = miss THEN Drop(rec, {"points", "goals", "powerPlayPoints"}) ELSE rec

LongLogs ==
    {[k \in 1..n |-> LongRecord(n, k, shift, miss)] :
        n \in RollingWindow..LongGames, shift \in 0..1, miss \in {0, 1, 4}}

\* the game logs handed to the engine
EngineLogs == SeqsUpTo(EngineRecords, MaxGames) \cup LongLogs

\* the game logs the provider returns during an analysis run: no games, one
\* game, two games (latest first), two games of one date
RunLogs ==
    {<<>>,
     <<GameA(5)>>,
     <<GameB(7), GameA(5)>>,
     <<GameA(5), Drop(GameB(5), {"goals", "shots"})>>}

\* get_game_log: None on an exception (ok = FALSE), else the response, with or
\* without a 'gameLog' key
Response(gameLog) == [ok |-> TRUE, has_gameLog |-> TRUE, gameLog |-> gameLog]

FailedResponses ==
    {[ok |-> FALSE, has_gameLog |-> FALSE, gameLog |-> <<>>],
     [ok |-> TRUE, has_gameLog |-> FALSE, gameLog |-> <<>>]}

GameLogResponses == FailedResponses \cup {Response(l) : l \in RunLogs}

-----------------------------------------------------------------------------
(* The analysis run *)

\* the guard of the analysis loop: if log and 'gameLog' in log
FetchGuard(log) == log.ok /\ log.has_gameLog

\* what the rendering after the loop shows.  In distribution mode the columns
\* are created with st.columns(len(distribution_summaries)), which raises for 0;
\* the series modes warn when all_dfs is empty.
RenderResult(mode, dfs, summaries) ==
    IF mode = "distribution"
    THEN IF Len(summaries) = 0 THEN "exception" ELSE "pies"
    ELSE IF dfs = <<>> THEN "no_data_warning" ELSE "chart"

\* one pass of the analysis loop body for selection p at position idx (0-based)
\* whose fetch returned log; `next_pc` is where the run goes on afterwards
LoopBody(log, p, idx, next_pc) ==
    IF ~FetchGuard(log)
    THEN /\ pc' = next_pc
         /\ UNCHANGED <<all_dfs, distribution_summaries, last_df, shown>>
    ELSE IF RaisesKeyError(log.gameLog)
    THEN /\ pc' = "raised"
         /\ shown' = "exception"
         /\ UNCHANGED <<all_dfs, distribution_summaries, last_df>>
    ELSE \E order \in SortOrders(log.gameLog) :
            LET d == Normalize(log.gameLog, order)
            IN  /\ last_df' = d
                /\ IF mode_key = "distribution"
                   THEN /\ distribution_summaries' =
                              Append(distribution_summaries,
                                     DistData(d, selected_metric_id, p, idx))
                        /\ UNCHANGED all_dfs
                   ELSE /\ all_dfs' =
                              Append(all_dfs,
                                     SeriesFrame(d, mode_key, selected_metric_id, p, idx))
                        /\ UNCHANGED distribution_summaries
                /\ pc' = next_pc
                /\ UNCHANGED shown

\* the mode radio and the metric selectbox
SelectMetric ==
    /\ Idle
    /\ \E mode \in Modes : \E metric \in MetricIds(mode) :
          /\ <<mode, metric>> # <<mode_key, selected_metric_id>>
          /\ mode_key' = mode
          /\ selected_metric_id' = metric
    /\ last_action' = [op |-> "metric", idx |-> 0]
    /\ UNCHANGED <<players, pc, i, fetched, all_dfs, distribution_summaries, shown,
                   last_df>>

\* the Launch Analysis button (shown only while selections are held)
LaunchAnalysis ==
    /\ Idle
    /\ players # <<>>
    /\ pc' = "loop"
    /\ i' = 0
    /\ fetched' = <<>>
    /\ all_dfs' = <<>>
    /\ distribution_summaries' = <<>>
    /\ shown' = "nothing"
    /\ last_df' = <<>>
    /\ last_action' = [op |-> "launch", idx |-> 0]
    /\ UNCHANGED <<players, mode_key, selected_metric_id>>

\* one iteration of the analysis loop: fetch the game log of selection i and
\* process it
ProcessSelection ==
    /\ pc = "loop"
    /\ i < Len(players)
    /\ \E log \in GameLogResponses :
          /\ fetched' = Append(fetched, log)
          /\ LoopBody(log, players[i + 1], i, "loop")
    /\ i' = i + 1
    /\ last_action' = [op |-> "process", idx |-> i]
    /\ UNCHANGED <<players, mode_key, selected_metric_id>>

\* the rendering after the loop
Render ==
    /\ pc = "loop"
    /\ i = Len(players)
    /\ shown' = RenderResult(mode_key, all_dfs, distribution_summaries)
    /\ pc' = "done"
    /\ last_action' = [op |-> "render", idx |-> 0]
    /\ UNCHANGED <<players, mode_key, selected_metric_id, i, fetched, all_dfs,
                   distribution_summaries, last_df>>

\* the next interaction reruns the script: the run's output is gone
Rerun ==
    /\ pc \in {"done", "raised"}
    /\ pc' = "idle"
    /\ i' = 0
    /\ fetched' = <<>>
    /\ all_dfs' = <<>>
    /\ distribution_summaries' = <<>>
    /\ shown' = "nothing"
    /\ last_df' = <<>>
    /\ last_action' = [op |-> "rerun", idx |-> 0]
    /\ UNCHANGED <<players, mode_key, selected_metric_id>>

\* the selection lists the run starts from: 0..3 selections added in turn
RECURSIVE PlayersOfLen(_)
PlayersOfLen(n) ==
    IF n = 0 THEN <<>>
    ELSE AddPlayerResult(PlayersOfLen(n - 1),
                         CHOOSE r \in SearchResults : TRUE,
                         [ok |-> TRUE, has_totals |-> FALSE, seasonTotals |-> <<>>,
                          has_season_id |-> FALSE, seasonId |-> DefaultSeason])

InitRun ==
    /\ players \in {PlayersOfLen(n) : n \in 0..MaxPlayers}
    /\ mode_key = "cumulative"
    /\ selected_metric_id = "points"
    /\ pc = "idle"
    /\ i = 0
    /\ fetched = <<>>
    /\ all_dfs = <<>>
    /\ distribution_summaries = <<>>
    /\ shown = "nothing"
    /\ last_df = <<>>
    /\ last_action = [op |-> "none", idx |-> 0]

NextRun == SelectMetric \/ LaunchAnalysis \/ ProcessSelection \/ Render \/ Rerun

SpecRun == InitRun /\ [][NextRun]_vars

-----------------------------------------------------------------------------
(* The engine on one game log: normalizer, metric selector and aggregation     *)
(* applied to a log drawn from EngineLogs, in any mode and metric              *)

\* the loop body applied to the one fetched log
Analyze ==
    /\ pc = "engine"
    /\ LoopBody(fetched[1], players[1], 0, "analyzed")
    /\ last_action' = [op |-> "analyze", idx |-> 0]
    /\ UNCHANGED <<players, mode_key, selected_metric_id, i, fetched>>

InitEngine ==
    /\ players = PlayersOfLen(1)
    /\ mode_key \in Modes
    /\ selected_metric_id \in MetricIds(mode_key)
    /\ pc = "engine"
    /\ i = 0
    /\ fetched \in {<<Response(l)>> : l \in EngineLogs}
    /\ all_dfs = <<>>
    /\ distribution_summaries = <<>>
    /\ shown = "nothing"
    /\ last_df = <<>>
    /\ last_action = [op |-> "none", idx |-> 0]

NextEngine == Analyze

SpecEngine == InitEngine /\ [][NextEngine]_vars

-----------------------------------------------------------------------------
(* Claims on the selection list (specification Spec) *)

\* C1: after any sequence of add-player, remove-player and change-season
\* actions from the empty list, the list holds at most 3 selections; an add
\* attempted while 3 are held leaves the list as it is.
C1_AtMostThreeSelections ==
    /\ Len(players) <= 3
    /\ (last_action.op = "add" /\ last_action.idx = 3) => Len(players) = 3

\* an add was attempted while 3 selections were held
C1_Witness == last_action.op = "add" /\ last_action.idx = 3 /\ Len(players) = 3

\* C2: the selection at list position i carries colour index i, so the colour
\* indices are pairwise distinct, contiguous from 0 and within 0..2.
C2_ColorIdxIsPosition ==
    /\ \A k \in DOMAIN players : players[k].color_idx = k - 1
    /\ \A k \in DOMAIN players : players[k].color_idx \in 0..2
    /\ \A a, b \in DOMAIN players : a # b => players[a].color_idx # players[b].color_idx

\* the first of three selections was removed: the two left moved down
C2_Witness ==
    /\ last_action.op = "remove"
    /\ last_action.idx = 0
    /\ Len(players) = 2

\* C11: every held selection has a non-empty list of available seasons that is
\* duplicate-free and strictly descending, and its selected season is a member
\* of it (so available_seasons.index(selected_season) never fails); a selection
\* just added starts on the first, most recent, season.
C11_SeasonsWellFormed ==
    /\ \A k \in DOMAIN players :
          LET av == players[k].available_seasons
          IN  /\ av # <<>>
              /\ \A a, b \in DOMAIN av : a < b => av[a] > av[b]
              /\ \E a \in DOMAIN av : av[a] = players[k].selected_season
    /\ (last_action.op = "add" /\ Len(players) = last_action.idx + 1) =>
          LET p == players[Len(players)]
          IN  /\ p.selected_season = p.available_seasons[1]
              /\ \A a \in DOMAIN p.available_seasons :
                    p.selected_season >= p.available_seasons[a]

\* a selection with three seasons was moved to its oldest season, next to one
\* that still stands on its most recent season
C11_Witness ==
    /\ last_action.op = "season"
    /\ Len(players) >= 2
    /\ \E k \in DOMAIN players :
          /\ Len(players[k].available_seasons) = 3
          /\ players[k].selected_season = players[k].available_seasons[3]
    /\ \E k \in DOMAIN players :
          /\ Len(players[k].available_seasons) >= 2
          /\ players[k].selected_season = players[k].available_seasons[1]

-----------------------------------------------------------------------------
(* Claims on the analysis run (specification SpecRun) *)

RunEnded == pc \in {"done", "raised"}

\* the fetch of selection k (1-based) returned a game log with at least one game
ReturnedGames(k) ==
    k <= Len(fetched) /\ FetchGuard(fetched[k]) /\ Len(fetched[k].gameLog) >= 1

\* the fetch of selection k returned a game log with no game
ReturnedZeroGames(k) ==
    k <= Len(fetched) /\ FetchGuard(fetched[k]) /\ fetched[k].gameLog = <<>>

FetchFailed(k) == k <= Len(fetched) /\ ~FetchGuard(fetched[k])

\* the selections (by their colour, COLORS[position]) whose result the run shows
ShownColors ==
    IF shown = "chart" THEN {all_dfs[k].color : k \in DOMAIN all_dfs}
    ELSE IF shown = "pies"
    THEN {distribution_summaries[k].color : k \in DOMAIN distribution_summaries}
    ELSE {}

\* C3: in a run in which the fetch of some selection failed, every other
\* selection whose fetch returned games has its result in the run's output,
\* wherever the failed selection stands in the list.
C3_FailedFetchDoesNotHideOthers ==
    (RunEnded /\ \E f \in DOMAIN players : FetchFailed(f))
        => \A k \in DOMAIN players : ReturnedGames(k) => COLORS[k] \in ShownColors

\* C4: a run with a selection whose log holds zero games completes, and its
\* output holds exactly the results of the selections that returned games.
C4_ZeroGamesOmitted ==
    (RunEnded /\ \E z \in DOMAIN players : ReturnedZeroGames(z))
        => /\ pc = "done"
           /\ ShownColors = {COLORS[k] : k \in {j \in DOMAIN players : ReturnedGames(j)}}

\* C6: a run over a non-empty selection list in which every fetch failed shows
\* the explicit no-data message, in every mode.
C6_NoDataMessageInEveryMode ==
    (RunEnded /\ players # <<>> /\ \A k \in DOMAIN players : FetchFailed(k))
        => shown = "no_data_warning"

-----------------------------------------------------------------------------
(* Claims on the engine (specification SpecEngine) *)

Analyzed == pc = "analyzed"

CountingMetrics == {"points", "goals", "assists", "plusMinus"}

\* the value of a numeric field of a normalized row as the specification reads
\* it: the integer the record carries, 0 when the record lacks the field
FieldOrZero(row, field) == IF IsNum(row[field]) THEN row[field].n ELSE 0

\* the sum of a field over games lo..hi of the frame, a missing field counting 0
RECURSIVE FieldSum(_, _, _, _)
FieldSum(rows, field, lo, hi) ==
    IF hi < lo THEN 0
    ELSE FieldSum(rows, field, lo, hi - 1) + FieldOrZero(rows[hi], field)

\* the frame with every missing numeric cell set to 0
ZeroFilled(rows) ==
    [g \in DOMAIN rows |->
        [c \in DOMAIN rows[g] |->
            IF c \in AllNumeric /\ rows[g][c] = NaN THEN IntVal(0) ELSE rows[g][c]]]

\* C5: a record that lacks one of the nine numeric fields contributes 0 for it
\* to every aggregation: the cumulative sums, the window sums and the season
\* totals are those of the log with the missing fields set to 0, and no result
\* is a no-value.
C5_MissingFieldCountsAsZero ==
    Analyzed =>
        IF mode_key = "distribution"
        THEN distribution_summaries[1].totals = Totals(ZeroFilled(last_df))
        ELSE LET ref == SeriesFrame(ZeroFilled(last_df), mode_key, selected_metric_id,
                                    players[1], 0)
             IN  /\ all_dfs[1].cum_val = ref.cum_val
                 /\ all_dfs[1].y_final = ref.y_final
                 /\ \A g \in DOMAIN last_df : all_dfs[1].y_final[g] # NaN
                 /\ mode_key = "projection" => all_dfs[1].y_rolling = ref.y_rolling

C8_PaceProjection ==
    (Analyzed /\ mode_key = "projection" /\ selected_metric_id \in CountingMetrics) =>
        \A g \in DOMAIN last_df :
            all_dfs[1].y_final[g] =
                Num(PaceGames * FieldSum(last_df, selected_metric_id, 1, g), g)

\* C9: in projection mode, for the counting metrics, the rolling value of game g
\* is the no-value marker for g in 1..9 and (window_sum / 10) * 82 for g in 10..N,
\* window_sum being the sum of the per-game values of the 10 games g-9..g; in
\* cumulative mode the frame has no rolling column.
C9_RollingWindow ==
    Analyzed =>
        /\ (mode_key = "projection" /\ selected_metric_id \in CountingMetrics) =>
              /\ "y_rolling" \in DOMAIN all_dfs[1]
              /\ \A g \in DOMAIN last_df :
                    IF g <= 9
                    THEN all_dfs[1].y_rolling[g] = None
                    ELSE all_dfs[1].y_rolling[g] =
                            Num(82 * FieldSum(last_df, selected_metric_id, g - 9, g), 10)
        /\ mode_key = "cumulative" => "y_rolling" \notin DOMAIN all_dfs[1]

\* a season of more than 10 games in which one game of the window lacks the
\* field and the window has moved on from the first game
C9_Witness ==
    /\ Analyzed
    /\ mode_key = "projection"
    /\ selected_metric_id = "points"
    /\ Len(last_df) > 10
    /\ \E g \in DOMAIN last_df : g >= 2 /\ last_df[g].points = NaN
    /\ all_dfs[1].y_rolling[9] = None
    /\ all_dfs[1].y_rolling[10] # None
    /\ all_dfs[1].y_rolling[11] # all_dfs[1].y_rolling[10]
    /\ all_dfs[1].y_rolling[11] # all_dfs[1].y_final[11]

\* C10: in every distribution summary the even-strength, power-play and
\* shorthanded buckets add up to the season total of goals, of points and of
\* assists, with pp_assists = pp_points - pp_goals and
\* sh_assists = sh_points - sh_goals.
C10_BucketsAddUp ==
    (Analyzed /\ mode_key = "distribution") =>
        LET t == distribution_summaries[1].totals
            N == Len(last_df)
        IN  /\ QAdd(QAdd(t.es_goals, t.pp_goals), t.sh_goals)
                  = IntVal(FieldSum(last_df, "goals", 1, N))
            /\ QAdd(QAdd(t.es_points, t.pp_points), t.sh_points)
                  = IntVal(FieldSum(last_df, "points", 1, N))
            /\ QAdd(QAdd(t.es_assists, t.pp_assists), t.sh_assists)
                  = IntVal(FieldSum(last_df, "assists", 1, N))
            /\ t.pp_assists = IntVal(FieldSum(last_df, "powerPlayPoints", 1, N)
                                     - FieldSum(last_df, "powerPlayGoals", 1, N))
            /\ t.sh_assists = IntVal(FieldSum(last_df, "shorthandedPoints", 1, N)
                                     - FieldSum(last_df, "shorthandedGoals", 1, N))

\* a summary of two games with points in all three situations
C10_Witness ==
    /\ Analyzed
    /\ mode_key = "distribution"
    /\ Len(last_df) = 2
    /\ QGt0(distribution_summaries[1].totals.pp_goals)
    /\ QGt0(distribution_summaries[1].totals.sh_assists)
    /\ QGt0(distribution_summaries[1].totals.es_assists)

=============================================================================
